---- MODULE Spec2Model ----
(***************************************************************************)
(* Model of pg_check's item bitmap (src/src/item-bitmap.c).                *)
(*                                                                         *)
(* An item_bitmap is the record                                            *)
(*   [npages, pages, nbytes, maxBytes, data]                               *)
(* where pages is the int array of cumulative item counts and data is the  *)
(* char buffer.  The buffer is stored sparsely, as the set of the global   *)
(* indices of its 1 bits (bit j of byte i is index 8*i+j); every read and  *)
(* write of the code goes through ByteAt / StoreByte, which convert        *)
(* between that set and the byte value 0..255 the C expression sees.       *)
(***************************************************************************)
EXTENDS Integers, Sequences, FiniteSets, TLC

\* ------------------------------------------------------------------ bounds
MaxPages  == 2      \* npages passed to bitmap_init is in 1..MaxPages
MaxItems  == 5      \* largest item count of a page in the small layouts
MaxOps    == 3      \* calls made on the bitmaps besides registering pages
HeapSlots == 2      \* most line pointers on a heap page
MaxSlots  == 2      \* most line pointers on an index page
GrowPages == 8      \* npages of the bitmap of the growth specification
GrowOps   == 1      \* bitmap_set_item calls of the growth specification
GrowSmall == 2      \* pages of the growth specification that are not full
IndexCalls == 1     \* bitmap_add_index_items calls on one bitmap

\* ------------------------------------------------------- program constants
PALLOC_CHUNK == 1024
\* MaxHeapTuplesPerPage of the host for the 32kB block size the comment above
\* PALLOC_CHUNK names ("32k ~ 1200 bits"): (32768 - 24) / (24 + 4).
MaxHeapTuplesPerPage == 1169

\* palloc does not clear memory: a fresh pages array holds whatever the
\* allocator left there, zeroes from a fresh arena or the 0x7F fill of a build
\* that clobbers freed memory.
UninitInts == {0, 2139062143}

\* ------------------------------------------------------------ C arithmetic
\* int division and remainder truncate toward zero
CDiv(a, b) == IF a >= 0 THEN a \div b ELSE -((-a) \div b)
CMod(a, b) == IF a >= 0 THEN a % b ELSE -((-a) % b)

Pow2(k) == 2 ^ k

\* the bit positions (0..7) set in the low byte of v, and back
BitsOf(v) == {j \in 0..7 : (v \div Pow2(j)) % 2 = 1}

RECURSIVE FromBits(_)
FromBits(S) ==
  IF S = {} THEN 0
  ELSE LET j == CHOOSE k \in S : TRUE IN Pow2(j) + FromBits(S \ {j})

\* low byte of  v | m,  v & ~m,  v ^ m,  v & m
ByteOr(v, m)     == v + FromBits(BitsOf(m) \ BitsOf(v))
ByteAndNot(v, m) == v - FromBits(BitsOf(v) \cap BitsOf(m))
ByteXor(v, m)    == FromBits((BitsOf(v) \ BitsOf(m)) \cup (BitsOf(m) \ BitsOf(v)))
ByteAnd(v, m)    == FromBits(BitsOf(v) \cap BitsOf(m))

\* data[i] as the code reads it, and data with data[i] = v stored
ByteAt(data, i) == FromBits({j \in 0..7 : 8 * i + j \in data})
StoreByte(data, i, v) ==
  (data \ {8 * i + j : j \in 0..7}) \cup {8 * i + j : j \in BitsOf(v)}

\* (1 << bitIdx) as a 32-bit pattern.  A negative count is undefined; the
\* shift instruction either takes the count modulo 32 or shifts everything out.
ShiftOne(bitIdx) ==
  IF bitIdx >= 0 THEN {Pow2(bitIdx)}
  ELSE IF bitIdx = -1 THEN {-2147483647 - 1, 0}    \* 1 << 31 is INT_MIN
  ELSE {Pow2(32 + bitIdx), 0}

\* ---------------------------------------------------------------- bitmap
\* the macro of item-bitmap.h: global bit index of (page, item)
GetBitmapIndex(bitmap, page, item) ==
  IF page = 0 THEN item ELSE bitmap.pages[page - 1] + item

\* bitmap_init, for each content the uninitialised pages array may hold
bitmap_init(npages) ==
  { [npages   |-> npages,
     pages    |-> p,
     nbytes   |-> 0,
     maxBytes |-> PALLOC_CHUNK * (CDiv(CDiv(npages, PALLOC_CHUNK), 8) + 1),
     data     |-> {}] : p \in {[i \in 0..(npages - 1) |-> v] : v \in UninitInts} }

bitmap_copy(src) ==
  [npages   |-> src.npages,
   nbytes   |-> src.nbytes,
   maxBytes |-> src.maxBytes,
   pages    |-> src.pages,
   data     |-> {}]

\* the asserts of bitmap_add_page
AddPagePre(bitmap, page, items) ==
  /\ page >= 0
  /\ page < bitmap.npages
  /\ items >= 0
  /\ items <= MaxHeapTuplesPerPage

\* mutant: the new buffer is not filled from the old one
bitmap_add_page_lost(bitmap, page, items) ==
  LET cum    == IF page = 0 THEN items ELSE items + bitmap.pages[page - 1]
      nbytes == CDiv(cum + 7, 8)
      len    == bitmap.maxBytes
      grown  == nbytes > bitmap.maxBytes
  IN [bitmap EXCEPT
        !.pages[page] = cum,
        !.nbytes      = nbytes,
        !.maxBytes    = IF grown THEN len + PALLOC_CHUNK ELSE len,
        !.data        = IF grown THEN {} ELSE bitmap.data]

\* mutant: the count of the page is stored, not the running total
bitmap_add_page_nosum(bitmap, page, items) ==
  LET cum    == items
      nbytes == CDiv(cum + 7, 8)
      len    == bitmap.maxBytes
      grown  == nbytes > bitmap.maxBytes
  IN [bitmap EXCEPT
        !.pages[page] = cum,
        !.nbytes      = nbytes,
        !.maxBytes    = IF grown THEN len + PALLOC_CHUNK ELSE len,
        !.data        = IF grown THEN {x \in bitmap.data : x < 8 * len}
                        ELSE bitmap.data]

bitmap_add_page(bitmap, page, items) ==
  LET cum    == IF page = 0 THEN items ELSE items + bitmap.pages[page - 1]
      nbytes == CDiv(cum + 7, 8)
      len    == bitmap.maxBytes
      grown  == nbytes > bitmap.maxBytes
  IN [bitmap EXCEPT
        !.pages[page] = cum,
        !.nbytes      = nbytes,
        !.maxBytes    = IF grown THEN len + PALLOC_CHUNK ELSE len,
        \* repalloc keeps the first len bytes, memset zeroes the new chunk
        !.data        = IF grown THEN {x \in bitmap.data : x < 8 * len}
                        ELSE bitmap.data]

\* bitmap_set_item: the set of outcomes [bitmap, ret]; more than one only
\* where the shift is undefined
bitmap_set_item(bitmap, page, item, state) ==
  LET idx     == GetBitmapIndex(bitmap, page, item)
      byteIdx == CDiv(idx, 8)
      bitIdx  == CMod(idx, 8)
  IN IF page >= bitmap.npages THEN {[bitmap |-> bitmap, ret |-> FALSE]}
     ELSE IF byteIdx > bitmap.nbytes THEN {[bitmap |-> bitmap, ret |-> FALSE]}
     ELSE IF item >= bitmap.pages[page] THEN {[bitmap |-> bitmap, ret |-> FALSE]}
     ELSE { [bitmap |-> [bitmap EXCEPT !.data =
                StoreByte(@, byteIdx,
                  IF state THEN ByteOr(ByteAt(@, byteIdx), m)
                  ELSE ByteAndNot(ByteAt(@, byteIdx), m))],
             ret |-> TRUE] : m \in ShiftOne(bitIdx) }

\* bitmap_get_item: the set of values it may return
bitmap_get_item(bitmap, page, item) ==
  LET idx     == GetBitmapIndex(bitmap, page, item)
      byteIdx == CDiv(idx, 8)
      bitIdx  == CMod(idx, 8)
  IN IF page >= bitmap.npages THEN {FALSE}
     ELSE IF byteIdx > bitmap.nbytes THEN {FALSE}
     ELSE IF item >= bitmap.pages[page] THEN {FALSE}
     \* data[byteIdx] && (1 << bitIdx): the logical and of the two operands
     ELSE { (ByteAt(bitmap.data, byteIdx) # 0) /\ (m # 0) : m \in ShiftOne(bitIdx) }

\* mutant: the loop over the bytes stops one byte early
bitmap_count_short(bitmap) ==
  Cardinality({<<i, j>> \in (0..(bitmap.nbytes - 2)) \X (0..7) :
                 ByteAnd(ByteAt(bitmap.data, i), Pow2(j)) # 0})

bitmap_count(bitmap) ==
  Cardinality({<<i, j>> \in (0..(bitmap.nbytes - 1)) \X (0..7) :
                 ByteAnd(ByteAt(bitmap.data, i), Pow2(j)) # 0})

bitmap_compare(bitmap_a, bitmap_b) ==
  IF bitmap_a.npages # bitmap_b.npages
  THEN LET x == bitmap_a.pages[bitmap_a.npages - 1]
           y == bitmap_b.pages[bitmap_b.npages - 1]
       IN IF x > y THEN x ELSE y
  ELSE Cardinality({<<i, j>> \in (0..(bitmap_a.nbytes - 1)) \X (0..7) :
         LET diff == ByteXor(ByteAt(bitmap_a.data, i), ByteAt(bitmap_b.data, i))
         IN diff # 0 /\ ByteAnd(diff, Pow2(j)) # 0})

\* the two loops of bitmap_add_heap_items after bitmap_add_page; used[k] is
\* ItemIdIsUsed of line pointer k-1, hot[k] is HeapTupleHeaderIsHeapOnly of the
\* tuple it points to.  S is the set of [bitmap, nerrs] reached so far.
RECURSIVE HeapFirstPass(_, _, _, _)
HeapFirstPass(S, page, used, item) ==
  IF item >= Len(used) THEN S
  ELSE HeapFirstPass(
         UNION { IF used[item + 1]
                 THEN { [bitmap |-> o.bitmap,
                         nerrs  |-> IF o.ret THEN s.nerrs ELSE s.nerrs + 1] :
                        o \in bitmap_set_item(s.bitmap, page, item, TRUE) }
                 ELSE {s} : s \in S },
         page, used, item + 1)

RECURSIVE HeapSecondPass(_, _, _, _)
HeapSecondPass(S, page, hot, item) ==
  IF item >= Len(hot) THEN S
  ELSE HeapSecondPass(
         UNION { IF hot[item + 1]
                 THEN UNION { IF g
                              THEN { [bitmap |-> o.bitmap,
                                      nerrs  |-> IF o.ret THEN s.nerrs
                                                 ELSE s.nerrs + 1] :
                                     o \in bitmap_set_item(s.bitmap, page, item, FALSE) }
                              ELSE {s} :
                              g \in bitmap_get_item(s.bitmap, page, item) }
                 ELSE {s} : s \in S },
         page, hot, item + 1)

\* mutant: no second pass
bitmap_add_heap_items_onepass(bitmap, used, hot, page) ==
  HeapFirstPass({[bitmap |-> bitmap_add_page(bitmap, page, Len(used)),
                  nerrs  |-> 0]}, page, used, 0)

\* bitmap_add_heap_items: the set of outcomes [bitmap, nerrs]
bitmap_add_heap_items(bitmap, used, hot, page) ==
  LET ntuples == Len(used)
      added   == bitmap_add_page(bitmap, page, ntuples)
  IN HeapSecondPass(
       HeapFirstPass({[bitmap |-> added, nerrs |-> 0]}, page, used, 0),
       page, hot, 0)

\* the loop of bitmap_add_index_items; tids[k] is the t_tid of the index tuple
\* of line pointer k-1, [blk |-> block number, pos |-> ip_posid]
RECURSIVE IndexLoop(_, _, _)
IndexLoop(S, tids, item) ==
  IF item >= Len(tids) THEN S
  ELSE IndexLoop(
         UNION { { [bitmap |-> o.bitmap,
                    nerrs  |-> IF o.ret THEN s.nerrs ELSE s.nerrs + 1] :
                   o \in bitmap_set_item(s.bitmap, tids[item + 1].blk,
                                         tids[item + 1].pos - 1, TRUE) } :
                 s \in S },
         tids, item + 1)

\* bitmap_add_index_items: the set of outcomes [bitmap, nerrs]
bitmap_add_index_items(bitmap, tids) ==
  IndexLoop({[bitmap |-> bitmap, nerrs |-> 0]}, tids, 0)

\* ----------------------------------------------------------------- state
VARIABLES
  bm,        \* the live bitmaps: a function from their names to item_bitmap
  regd,      \* per bitmap, the item counts its caller has registered, in
             \* page order (the caller's loop over the pages)
  ops,       \* calls made besides registering pages
  last       \* the latest call: its name, arguments, result, bitmap before

vars == <<bm, regd, ops, last>>

NoCall == [op |-> "none"]

\* the page the caller of bitmap id registers next, and whether it is done
NextPage(id) == Len(regd[id])
Complete(id) == id \in DOMAIN bm /\ NextPage(id) = bm[id].npages

ItemCounts == 0..MaxItems
SomeCounts == {0, 2, MaxItems}
GrowCounts == {0, 7, MaxHeapTuplesPerPage}
ItemArgs   == -1..MaxItems            \* ip_posid - 1 of ip_posid = 0 is -1
AllStates  == BOOLEAN

Init ==
  /\ \E n \in 1..MaxPages : \E b \in bitmap_init(n) : bm = [i \in {"a"} |-> b]
  /\ regd = [i \in {"a"} |-> <<>>]
  /\ ops = 0
  /\ last = NoCall

InitGrow ==
  /\ \E b \in bitmap_init(GrowPages) : bm = [i \in {"a"} |-> b]
  /\ regd = [i \in {"a"} |-> <<>>]
  /\ ops = 0
  /\ last = NoCall

\* the registered pages of bitmap id with fewer than MaxHeapTuplesPerPage items
SmallPages(id) == {k \in DOMAIN regd[id] : regd[id][k] < MaxHeapTuplesPerPage}

\* the caller's loop over the pages: bitmap_add_page(bitmap, page, items);
\* small bounds the pages registered with fewer than MaxHeapTuplesPerPage items
AddPage(id, counts, small) ==
  /\ id \in DOMAIN bm
  /\ \E items \in counts :
       LET page == NextPage(id) IN
       /\ items < MaxHeapTuplesPerPage => Cardinality(SmallPages(id)) < small
       /\ AddPagePre(bm[id], page, items)
       /\ bm' = [bm EXCEPT ![id] = bitmap_add_page(@, page, items)]
       /\ regd' = [regd EXCEPT ![id] = Append(@, items)]
       /\ last' = [op |-> "add_page", id |-> id, page |-> page, items |-> items,
                   pre |-> bm[id]]
  /\ UNCHANGED ops

\* the caller's loop over the heap pages: bitmap_add_heap_items on the next page
AddHeapItems(id) ==
  /\ id \in DOMAIN bm
  /\ \E n \in 0..HeapSlots :
       \E used \in [1..n -> BOOLEAN], hot \in [1..n -> BOOLEAN] :
         LET page == NextPage(id) IN
         /\ AddPagePre(bm[id], page, n)
         /\ \E o \in bitmap_add_heap_items(bm[id], used, hot, page) :
              /\ bm' = [bm EXCEPT ![id] = o.bitmap]
              /\ last' = [op |-> "heap_items", id |-> id, page |-> page,
                          used |-> used, hot |-> hot, ret |-> o.nerrs,
                          pre |-> bm[id]]
         /\ regd' = [regd EXCEPT ![id] = Append(@, n)]
  /\ UNCHANGED ops

\* bitmap_add_index_items on a bitmap whose layout is complete
AddIndexItems(id) ==
  /\ Complete(id)
  /\ ops < IndexCalls
  /\ \E n \in 0..MaxSlots :
       \E tids \in [1..n -> [blk : 0..bm[id].npages, pos : 0..(MaxItems + 1)]] :
         \E o \in bitmap_add_index_items(bm[id], tids) :
           /\ bm' = [bm EXCEPT ![id] = o.bitmap]
           /\ last' = [op |-> "index_items", id |-> id, tids |-> tids,
                       ret |-> o.nerrs, pre |-> bm[id]]
  /\ ops' = ops + 1
  /\ UNCHANGED regd

\* bitmap_set_item with any page up to one past the last and any item of items
SetItem(id, items, states, budget) ==
  /\ Complete(id)
  /\ ops < budget
  /\ \E page \in 0..bm[id].npages, item \in items, state \in states :
       \E o \in bitmap_set_item(bm[id], page, item, state) :
         /\ bm' = [bm EXCEPT ![id] = o.bitmap]
         /\ last' = [op |-> "set_item", id |-> id, page |-> page, item |-> item,
                     state |-> state, ret |-> o.ret, pre |-> bm[id]]
  /\ ops' = ops + 1
  /\ UNCHANGED regd

\* bitmap_set_item on an item of a registered page, as the first loop of
\* bitmap_add_heap_items calls it.  recent: on the page registered last, and
\* only its first and last item; otherwise on any page of a complete layout
SetValidItem(id, recent, budget) ==
  /\ id \in DOMAIN bm
  /\ recent \/ Complete(id)
  /\ ops < budget
  /\ \E page \in IF recent THEN {NextPage(id) - 1} \cap Nat ELSE 0..(NextPage(id) - 1) :
       \E item \in IF recent THEN {0, regd[id][page + 1] - 1}
                   ELSE 0..(regd[id][page + 1] - 1), state \in BOOLEAN :
         /\ item >= 0
         /\ \E o \in bitmap_set_item(bm[id], page, item, state) :
              /\ bm' = [bm EXCEPT ![id] = o.bitmap]
              /\ last' = [op |-> "set_item", id |-> id, page |-> page,
                          item |-> item, state |-> state, ret |-> o.ret,
                          pre |-> bm[id]]
  /\ ops' = ops + 1
  /\ UNCHANGED regd

\* bitmap_get_item; after records the state argument of the bitmap_set_item
\* call right before it when that call addressed the same item and returned
\* true ("none" otherwise)
GetItem(id) ==
  /\ Complete(id)
  /\ ops < MaxOps
  /\ \E page \in 0..bm[id].npages, item \in ItemArgs :
       \E g \in bitmap_get_item(bm[id], page, item) :
         last' = [op |-> "get_item", id |-> id, page |-> page, item |-> item,
                  ret |-> g,
                  after |-> IF /\ last.op = "set_item"
                               /\ last.id = id
                               /\ last.page = page
                               /\ last.item = item
                               /\ last.ret
                            THEN (IF last.state THEN "true" ELSE "false")
                            ELSE "none"]
  /\ ops' = ops + 1
  /\ UNCHANGED <<bm, regd>>

Count(id) ==
  /\ id \in DOMAIN bm
  /\ ops < MaxOps
  /\ last' = [op |-> "count", id |-> id, ret |-> bitmap_count(bm[id])]
  /\ ops' = ops + 1
  /\ UNCHANGED <<bm, regd>>

\* a second bitmap with the layout of the first: bitmap_copy
Copy(src, dst) ==
  /\ Complete(src)
  /\ dst \notin DOMAIN bm
  /\ bm' = [i \in DOMAIN bm \cup {dst} |->
              IF i = dst THEN bitmap_copy(bm[src]) ELSE bm[i]]
  /\ regd' = [i \in DOMAIN bm \cup {dst} |-> IF i = dst THEN regd[src] ELSE regd[i]]
  /\ last' = [op |-> "copy", id |-> dst, src |-> src]
  /\ UNCHANGED ops

\* a second bitmap of its own: bitmap_init, its pages registered afterwards
NewBitmap(src, dst) ==
  /\ Complete(src)
  /\ dst \notin DOMAIN bm
  /\ \E n \in 1..MaxPages : \E b \in bitmap_init(n) :
       bm' = [i \in DOMAIN bm \cup {dst} |-> IF i = dst THEN b ELSE bm[i]]
  /\ regd' = [i \in DOMAIN bm \cup {dst} |-> IF i = dst THEN <<>> ELSE regd[i]]
  /\ last' = [op |-> "init", id |-> dst]
  /\ UNCHANGED ops

\* bitmap_compare(x, y) of two bitmaps with complete layouts
Compare(x, y) ==
  /\ Complete(x)
  /\ Complete(y)
  /\ ops < MaxOps
  /\ last' = [op |-> "compare", x |-> x, y |-> y,
              ret |-> bitmap_compare(bm[x], bm[y])]
  /\ ops' = ops + 1
  /\ UNCHANGED <<bm, regd>>

\* ------------------------------------------------------- specifications
\* one bitmap: layout, then bit accessors and count with any arguments
Next ==
  \/ AddPage("a", ItemCounts, MaxPages)
  \/ SetItem("a", ItemArgs, AllStates, MaxOps)
  \/ GetItem("a")
  \/ Count("a")

Spec == Init /\ [][Next]_vars

\* one bitmap populated from heap pages
NextHeap == AddHeapItems("a")

SpecHeap == Init /\ [][NextHeap]_vars

\* one bitmap: layout, then index pages
NextIndex ==
  \/ AddPage("a", ItemCounts, MaxPages)
  \/ AddIndexItems("a")

SpecIndex == Init /\ [][NextIndex]_vars

\* one bitmap: layout, items of registered pages set and cleared, count
NextCount ==
  \/ AddPage("a", SomeCounts, MaxPages)
  \/ SetValidItem("a", FALSE, MaxOps)
  \/ Count("a")

SpecCount == Init /\ [][NextCount]_vars

\* two bitmaps, the second a copy of the first or one of its own
NextPair ==
  \/ AddPage("a", SomeCounts, MaxPages)
  \/ AddPage("b", SomeCounts, MaxPages)
  \/ Copy("a", "b")
  \/ NewBitmap("a", "b")
  \/ SetItem("a", ItemArgs, {TRUE}, MaxOps - 1)
  \/ SetItem("b", ItemArgs, {TRUE}, MaxOps - 1)
  \/ Compare("a", "a")
  \/ Compare("a", "b")
  \/ Compare("b", "a")

SpecPair == Init /\ [][NextPair]_vars

\* one bitmap whose pages fill more than the first chunk
NextGrow ==
  \/ AddPage("a", GrowCounts, GrowSmall)
  \/ SetValidItem("a", TRUE, GrowOps)

SpecGrow == InitGrow /\ [][NextGrow]_vars

\* ------------------------------------------------------------- properties
\* What the callers know, independent of the pages array: the item count of a
\* registered page, the sum of the counts of the first k pages, the global bit
\* index of (page, item), and the (page, item) pairs that exist.
OwnCount(id, page) == regd[id][page + 1]

RECURSIVE SumCounts(_, _)
SumCounts(counts, k) == IF k = 0 THEN 0 ELSE counts[k] + SumCounts(counts, k - 1)

PageStart(id, page) == SumCounts(regd[id], page)
BitIndex(id, page, item) == PageStart(id, page) + item

ValidItems(id) ==
  {pi \in (0..(NextPage(id) - 1)) \X (0..MaxHeapTuplesPerPage) :
     pi[2] < OwnCount(id, pi[1])}

IsValid(id, page, item) ==
  /\ page >= 0
  /\ page < NextPage(id)
  /\ item >= 0
  /\ item < OwnCount(id, page)

Ceil8(x) == IF x % 8 = 0 THEN x \div 8 ELSE (x \div 8) + 1

\* C1: on a complete layout, bitmap_get_item of a valid (page, item) right
\* after a successful bitmap_set_item(page, item, true) returns true, and right
\* after a successful bitmap_set_item(page, item, false) returns false,
\* whatever the other bits of the byte are.
C1_SetGetRoundTrip ==
  (last.op = "get_item" /\ IsValid(last.id, last.page, last.item))
    => /\ (last.after = "true" => last.ret)
       /\ (last.after = "false" => ~last.ret)

\* C2: bitmap_set_item and bitmap_get_item with page >= npages, or with item
\* at or beyond the page's own item count, return false, and bitmap_set_item
\* then leaves the buffer as it was.
C2_BoundsRejection ==
  (/\ last.op \in {"set_item", "get_item"}
   /\ (last.page >= bm[last.id].npages
        \/ last.item >= OwnCount(last.id, last.page)))
    => /\ ~last.ret
       /\ (last.op = "set_item" => bm[last.id].data = last.pre.data)

\* C3: after bitmap_add_heap_items on page p, bit (p, j) is 1 exactly when
\* slot j is used and its tuple is not heap-only, the bits of the pages before
\* p are as they were, and the error count is 0.
C3_HeapItems ==
  last.op = "heap_items"
    => LET id == last.id
           p  == last.page
       IN /\ \A j \in 0..(Len(last.used) - 1) :
               (BitIndex(id, p, j) \in bm[id].data)
                 <=> (last.used[j + 1] /\ ~last.hot[j + 1])
          /\ \A x \in 0..(PageStart(id, p) - 1) :
               (x \in bm[id].data) <=> (x \in last.pre.data)
          /\ last.ret = 0

\* a page of used slots whose last tuple is heap-only and whose first is not,
\* populated after a page that left bits set
C3_Witness ==
  /\ last.op = "heap_items"
  /\ last.page = 1
  /\ Len(last.used) = HeapSlots
  /\ \A k \in DOMAIN last.used : last.used[k] /\ (last.hot[k] <=> k = HeapSlots)
  /\ last.pre.data # {}
  /\ BitIndex("a", 1, 0) \in bm["a"].data
  /\ BitIndex("a", 1, HeapSlots - 1) \notin bm["a"].data
  /\ last.ret = 0

\* C4: bitmap_add_index_items sets bit (blk, pos - 1) for every slot whose
\* pointer has blk < npages and 1 <= pos <= item count of page blk, changes no
\* other bit, and returns the number of slots whose pointer is outside that
\* range.  Stated for the index pages none of whose pointers gives a negative
\* bit index (the shift of those is undefined).
C4_IndexItems ==
  (/\ last.op = "index_items"
   /\ \A k \in DOMAIN last.tids :
        last.tids[k].blk < bm[last.id].npages
          => BitIndex(last.id, last.tids[k].blk, last.tids[k].pos - 1) >= 0)
    => LET id   == last.id
           tids == last.tids
           Good(k) == /\ tids[k].blk < bm[id].npages
                      /\ 1 <= tids[k].pos
                      /\ tids[k].pos <= OwnCount(id, tids[k].blk)
       IN /\ bm[id].data = last.pre.data \cup
               {BitIndex(id, tids[k].blk, tids[k].pos - 1) :
                  k \in {q \in DOMAIN tids : Good(q)}}
          /\ last.ret = Cardinality({k \in DOMAIN tids : ~Good(k)})

\* C5: bitmap_compare(a, b) = bitmap_compare(b, a) for any two bitmaps.
C5_CompareSymmetric ==
  last.op = "compare"
    => last.ret = bitmap_compare(bm[last.y], bm[last.x])

\* C6: for two bitmaps of the same layout, each populated by successful
\* bitmap_set_item calls, bitmap_compare returns the number k of positions in
\* which they differ; k is taken either way the claim can be read, over the
\* (page, item) pairs of the layout or over the bits of the two buffers.
C6_CompareCountsDiffs ==
  (last.op = "compare" /\ regd[last.x] = regd[last.y]
                       /\ bm[last.x].npages = bm[last.y].npages)
    => \/ last.ret = Cardinality(
            {pi \in ValidItems(last.x) :
               (BitIndex(last.x, pi[1], pi[2]) \in bm[last.x].data)
                 # (BitIndex(last.y, pi[1], pi[2]) \in bm[last.y].data)})
       \/ last.ret = Cardinality(
            (bm[last.x].data \ bm[last.y].data)
              \cup (bm[last.y].data \ bm[last.x].data))

\* C7: nbytes never exceeds maxBytes; maxBytes never decreases and changes
\* only by whole multiples of PALLOC_CHUNK; across bitmap_add_page every bit
\* below the old capacity keeps its value and the bytes added are all zero.
C7_Growth ==
  /\ bm["a"].nbytes <= bm["a"].maxBytes
  /\ last.op \in {"add_page", "set_item"}
       => /\ bm["a"].maxBytes >= last.pre.maxBytes
          /\ (bm["a"].maxBytes - last.pre.maxBytes) % PALLOC_CHUNK = 0
  /\ last.op = "add_page"
       => /\ \A x \in last.pre.data : x \in bm["a"].data
          /\ \A x \in bm["a"].data :
               x < 8 * last.pre.maxBytes /\ x \in last.pre.data

\* a registration that grew the buffer while a bit was set
C7_Witness ==
  /\ last.op = "add_page"
  /\ bm["a"].maxBytes = last.pre.maxBytes + PALLOC_CHUNK
  /\ bm["a"].nbytes > last.pre.maxBytes
  /\ last.pre.data # {}

\* C8: bitmap_count returns the number of (page, item) pairs whose bit is 1,
\* after any successful bitmap_set_item calls on items of registered pages.
C8_Count ==
  last.op = "count"
    => last.ret = Cardinality(
         {pi \in ValidItems(last.id) :
            BitIndex(last.id, pi[1], pi[2]) \in bm[last.id].data})

\* a count of a bitmap with a page of two items, both set, on a second page
C8_Witness ==
  /\ last.op = "count"
  /\ last.ret = 2
  /\ NextPage("a") = 2
  /\ OwnCount("a", 0) > 0
  /\ OwnCount("a", 1) = 2
  /\ {BitIndex("a", 1, 0), BitIndex("a", 1, 1)} \subseteq bm["a"].data

\* C9: after each registration pages[i] is the sum of the item counts of pages
\* 0..i for every registered i, the registered prefix is non-decreasing, a
\* registration leaves the entries of earlier pages alone, and nbytes is
\* ceil(pages[last registered] / 8).
C9_CumulativeOffsets ==
  LET b == bm["a"]
      n == NextPage("a")
  IN /\ \A i \in 0..(n - 1) : b.pages[i] = SumCounts(regd["a"], i + 1)
     /\ \A i \in 1..(n - 1) : b.pages[i - 1] <= b.pages[i]
     /\ n > 0 => b.nbytes = Ceil8(b.pages[n - 1])
     /\ last.op = "add_page"
          => \A i \in 0..(last.page - 1) : b.pages[i] = last.pre.pages[i]

\* every page registered, with different counts among them
C9_Witness ==
  /\ last.op = "add_page"
  /\ NextPage("a") = bm["a"].npages
  /\ \E i, j \in 1..NextPage("a") :
       regd["a"][i] = 7 /\ regd["a"][j] = MaxHeapTuplesPerPage
  /\ bm["a"].pages[NextPage("a") - 1] > 8

\* C10: a bitmap_set_item call that returns true wrote the bit of global
\* index (start of the page) + item, which lies in the page's own range
\* [start of the page, pages[page]) and in a byte below nbytes, and changed no
\* other bit.  Stated for the calls whose bit index is not negative (the shift
\* of the others is undefined).
C10_WritesInsidePage ==
  (last.op = "set_item" /\ last.ret
     /\ BitIndex(last.id, last.page, last.item) >= 0)
    => LET id  == last.id
           idx == BitIndex(id, last.page, last.item)
           changed == (bm[id].data \ last.pre.data) \cup (last.pre.data \ bm[id].data)
       IN /\ idx >= PageStart(id, last.page)
          /\ idx < PageStart(id, last.page) + OwnCount(id, last.page)
          /\ CDiv(idx, 8) < bm[id].nbytes
          /\ changed \subseteq {idx}

====
